---- MODULE Spec2Model ----
(***************************************************************************)
(* Model of ratelimit_futures (src/src/lib.rs): the Ratelimit future, a    *)
(* gate that checks a shared DirectRateLimiter and sleeps on a             *)
(* futures_timer::Delay until the limiter's predicted instant.             *)
(*                                                                         *)
(* Time is a discrete clock `now`.  The limiter is the leaky bucket of the *)
(* crate's example (one cell per time unit).  The Delay is a timer with an *)
(* armed instant, a fired bit that a helper thread sets once the instant   *)
(* has passed, and a registered waker.  Ratelimit::poll is split at the    *)
(* two places where the timer thread can act between a re-arm of the Delay *)
(* and the poll of it that follows (position `st`): the clock, the timer   *)
(* thread and the other gates run concurrently with a poll.                *)
(***************************************************************************)
EXTENDS Integers, FiniteSets, Sequences, TLC

\* ------------------------------------------------------------------ bounds
NumGates == 2        \* gates sharing the one limiter
TicksPerUnit == 2    \* clock ticks in the limiter's time unit
MaxTime == 4         \* last tick of the clock

\* The limiter of the crate's example: per_second(NonZeroU32::new(1)).
Capacity == 1

Gates == 1..NumGates
Weight == TicksPerUnit              \* ticks one admitted cell occupies
Full == Capacity * Weight           \* bucket size in ticks
Time == 0..MaxTime
NoInstant == -1

Max(a, b) == IF a >= b THEN a ELSE b
Min(a, b) == IF a <= b THEN a ELSE b

VARIABLES
    now,      \* the clock
    lim,      \* limiter state: [level, last]
    gate,     \* gate[g]: [st, first_time, delay]
    woken,    \* woken[g]: the timer has woken g's task since its last poll
    hist,     \* hist[g]: what g's polls did (observation only)
    log       \* log[t]: checks the limiter admitted at tick t (observation only)

vars == <<now, lim, gate, woken, hist, log>>

\* --------------------------------------------------------------- limiter
\* ratelimit_meter's LeakyBucket: the level drains one tick per tick; a check
\* is admitted when one more cell fits, and a denial leaves the state alone
\* and carries the instant at which the cell will fit.
LimiterCheck(l, t) ==
    LET t0 == Max(t, l.last)
        lvl == l.level - Min(t0 - l.last, l.level)
    IN  IF Weight + lvl <= Full
        THEN [ok |-> TRUE, lim |-> [level |-> lvl + Weight, last |-> t0],
              earliest |-> NoInstant, found |-> lvl]
        ELSE [ok |-> FALSE, lim |-> l,
              earliest |-> t0 + ((Weight + lvl) - Full), found |-> lvl]

\* ----------------------------------------------------------------- timer
\* futures_timer::Delay.  `when` is the armed instant, `fired` the bit the
\* timer thread sets, `waker` whether a waker is registered, `armed` whether
\* the timer still holds the entry (it is removed when the Delay is dropped).
DelayNew(t) == [when |-> t, fired |-> FALSE, waker |-> FALSE, armed |-> TRUE]

\* A reset that clears the fired bit and leaves the old instant armed.
DelayResetStale(d, at) == [d EXCEPT !.fired = FALSE]

\* A reset that replaces the instant and leaves the fired bit set.
DelayResetKeepsFired(d, at) == [d EXCEPT !.when = at]

\* A reset that never moves the armed instant later.
DelayResetEarlier(d, at) ==
    [d EXCEPT !.when = IF at < d.when THEN at ELSE d.when, !.fired = FALSE]

\* Delay::reset(at): replaces the instant and clears the fired bit.
DelayReset(d, at) == [d EXCEPT !.when = at, !.fired = FALSE]

\* Delay::poll: Ready when fired, else registers the waker and is Pending.
DelayReady(d) == d.fired
DelayPolled(d) == IF d.fired THEN d ELSE [d EXCEPT !.waker = TRUE]

\* The timer thread fires an entry whose instant has passed and takes its waker.
DelayFired(d) == [d EXCEPT !.fired = TRUE, !.waker = FALSE]

\* A drop that leaves the entry with the timer.
DelayLeaked(d) == d

\* Dropping the Delay removes its entry from the timer and frees it.
DelayDropped(d) == [when |-> 0, fired |-> FALSE, waker |-> FALSE, armed |-> FALSE]

\* ------------------------------------------------------------------ gate
NoGate == [st |-> "none", first_time |-> FALSE, delay |-> DelayNew(0)]

NoHist == [found |-> NoInstant,   \* bucket level its first check found
           ret |-> "none",        \* what the last finished poll returned
           act |-> "none",        \* the last thing the current/last poll did
           checks |-> 0,          \* limiter checks made
           admits |-> 0,          \* of which admitted
           pchecks |-> 0,         \* limiter checks in the current/last poll
           tpolled |-> FALSE,     \* the timer has been polled
           ptpolls |-> 0,         \* polls of the timer in the current/last poll
           resets |-> 0,          \* re-arms of the timer
           earliest |-> NoInstant,\* earliest_possible of the latest denial
           early |-> FALSE,       \* a re-check ran before that instant
           readyAt |-> NoInstant] \* tick of the poll that returned Ready

\* A constructor that arms the timer one time unit ahead.
RatelimitNewLater(t) ==
    [st |-> "idle", first_time |-> TRUE, delay |-> DelayNew(t + Weight)]

\* Ratelimit::new
RatelimitNew(t) == [st |-> "idle", first_time |-> TRUE, delay |-> DelayNew(t)]

\* Drop of a Ratelimit: its fields are dropped, the Delay among them.
Dropped(gt) == [st |-> "dropped", first_time |-> FALSE,
                delay |-> DelayDropped(gt.delay)]

\* A check that leaves the Delay as it is on a denial.
checkNoReset(g, t) ==
    LET r == LimiterCheck(lim, t)
    IN  [ok |-> r.ok, lim |-> r.lim, earliest |-> r.earliest, found |-> r.found,
         delay |-> gate[g].delay]

\* Ratelimit::check: the limiter's answer at time t, the limiter after it
\* and the gate's delay after it (re-armed on a denial).
check(g, t) ==
    LET r == LimiterCheck(lim, t)
    IN  [ok |-> r.ok, lim |-> r.lim, earliest |-> r.earliest, found |-> r.found,
         delay |-> IF r.ok THEN gate[g].delay
                   ELSE DelayReset(gate[g].delay, r.earliest)]

TypeOK ==
    /\ now \in Time
    /\ lim.level \in 0..Full /\ lim.last \in Time
    /\ \A g \in Gates :
        gate[g].st \in {"none", "idle", "delay", "repoll", "done", "dropped"}

Init ==
    /\ now = 0
    /\ lim \in {[level |-> l, last |-> 0] : l \in 0..Full}
    /\ gate = [g \in Gates |-> NoGate]
    /\ woken = [g \in Gates |-> FALSE]
    /\ hist = [g \in Gates |-> NoHist]
    /\ log = [t \in Time |-> 0]

\* ---------------------------------------------------------- observation
\* hist when a poll begins.
Entered(h) == [h EXCEPT !.pchecks = 0, !.ptpolls = 0, !.act = "none"]

\* hist after a limiter check at tick t with answer r.
Checked(h, r, t) ==
    [h EXCEPT !.found = IF h.checks = 0 THEN r.found ELSE @,
              !.checks = @ + 1,
              !.pchecks = @ + 1,
              !.admits = IF r.ok THEN @ + 1 ELSE @,
              !.resets = IF r.ok THEN @ ELSE @ + 1,
              !.act = IF r.ok THEN "admit" ELSE "deny",
              !.early = @ \/ (h.earliest # NoInstant /\ t < h.earliest),
              !.earliest = IF r.ok THEN @ ELSE r.earliest]

\* hist after a poll of the timer that answered `ready`.
TimerPolled(h, ready) ==
    [h EXCEPT !.tpolled = TRUE,
              !.ptpolls = @ + 1,
              !.act = IF ready THEN "timer_ready" ELSE "timer_pending"]

\* hist when the poll returns.
Returned(h, ret, t) ==
    [h EXCEPT !.ret = ret,
              !.readyAt = IF ret = "Ready" /\ @ = NoInstant THEN t ELSE @]

\* the limiter's admissions, counted per tick.
Logged(l, t, ok) == IF ok THEN [l EXCEPT ![t] = @ + 1] ELSE l

\* --------------------------------------------------------------- actions
\* The clock advances.
Tick ==
    /\ now < MaxTime
    /\ now' = now + 1
    /\ UNCHANGED <<lim, gate, woken, hist, log>>

\* The timer thread fires g's entry once its instant has passed, and wakes
\* the task whose waker is registered.
TimerFire(g) ==
    /\ gate[g].st # "none"
    /\ gate[g].delay.armed
    /\ ~gate[g].delay.fired
    /\ now >= gate[g].delay.when
    /\ gate' = [gate EXCEPT ![g].delay = DelayFired(@)]
    /\ woken' = [woken EXCEPT ![g] = @ \/ gate[g].delay.waker]
    /\ UNCHANGED <<now, lim, hist, log>>

\* Ratelimit::new(&mut lim); gates are constructed in order, at tick 0 (a
\* gate that arrives later is one first polled later).
New(g) ==
    /\ gate[g].st = "none"
    /\ \A k \in Gates : k < g => gate[k].st # "none"
    /\ now = 0
    /\ gate' = [gate EXCEPT ![g] = RatelimitNew(now)]
    /\ UNCHANGED <<now, lim, woken, hist, log>>

\* A check whose admission is not returned: the poll goes on to the timer.
PollCheckNoReturn(g, h, next) ==
    LET r == check(g, now)
    IN  /\ lim' = r.lim
        /\ gate' = [gate EXCEPT ![g].first_time = FALSE,
                                ![g].delay = r.delay,
                                ![g].st = next]
        /\ hist' = [hist EXCEPT ![g] = Checked(h, r, now)]
        /\ log' = Logged(log, now, r.ok)

\* A check that clears first_time only when it is admitted.
PollCheckKeepsFlag(g, h, next) ==
    LET r == check(g, now)
    IN  /\ lim' = r.lim
        /\ gate' = [gate EXCEPT ![g].first_time = IF r.ok THEN FALSE ELSE @,
                                ![g].delay = r.delay,
                                ![g].st = IF r.ok THEN "done" ELSE next]
        /\ hist' = [hist EXCEPT ![g] =
                      IF r.ok THEN Returned(Checked(h, r, now), "Ready", now)
                      ELSE Checked(h, r, now)]
        /\ log' = Logged(log, now, r.ok)

\* poll, lines 107-110 and 114-120: a limiter check.  Admitted: the poll
\* returns Ready.  Denied: the Delay is re-armed and the poll goes on to
\* poll it, at position `next`.
PollCheck(g, h, next) ==
    LET r == check(g, now)
    IN  /\ lim' = r.lim
        /\ gate' = [gate EXCEPT ![g].first_time = FALSE,
                                ![g].delay = r.delay,
                                ![g].st = IF r.ok THEN "done" ELSE next]
        /\ hist' = [hist EXCEPT ![g] =
                      IF r.ok THEN Returned(Checked(h, r, now), "Ready", now)
                      ELSE Checked(h, r, now)]
        /\ log' = Logged(log, now, r.ok)

\* A poll that takes the timer's firing for an admission.
PollTimerNoCheck(g, h) ==
    IF DelayReady(gate[g].delay)
    THEN /\ gate' = [gate EXCEPT ![g].first_time = FALSE, ![g].st = "done"]
         /\ hist' = [hist EXCEPT ![g] =
                       Returned(TimerPolled(h, TRUE), "Ready", now)]
         /\ UNCHANGED <<lim, log>>
    ELSE /\ gate' = [gate EXCEPT ![g].first_time = FALSE,
                                 ![g].delay = DelayPolled(@),
                                 ![g].st = "idle"]
         /\ hist' = [hist EXCEPT ![g] =
                       Returned(TimerPolled(h, FALSE), "Pending", now)]
         /\ UNCHANGED <<lim, log>>

\* A poll that checks the limiter whether or not the timer has fired.
PollTimerChecks(g, h) == PollCheck(g, TimerPolled(h, TRUE), "repoll")

\* poll, lines 111-124: the Delay is polled.  Not fired: the waker is
\* registered and the poll returns Pending.  Fired: the limiter is checked.
PollTimer(g, h) ==
    IF DelayReady(gate[g].delay)
    THEN PollCheck(g, TimerPolled(h, TRUE), "repoll")
    ELSE /\ gate' = [gate EXCEPT ![g].first_time = FALSE,
                                 ![g].delay = DelayPolled(@),
                                 ![g].st = "idle"]
         /\ hist' = [hist EXCEPT ![g] =
                       Returned(TimerPolled(h, FALSE), "Pending", now)]
         /\ UNCHANGED <<lim, log>>

\* A poll that goes to the timer before its first check.
EnterTimerFirst(g) ==
    /\ woken' = [woken EXCEPT ![g] = FALSE]
    /\ UNCHANGED now
    /\ PollTimer(g, Entered(hist[g]))

\* poll, lines 102-124, from its entry: a first poll checks the limiter, any
\* other poll polls the Delay.
Enter(g) ==
    /\ woken' = [woken EXCEPT ![g] = FALSE]
    /\ UNCHANGED now
    /\ IF gate[g].first_time
       THEN PollCheck(g, Entered(hist[g]), "delay")
       ELSE PollTimer(g, Entered(hist[g]))

\* The scheduler polls a gate that has not completed (its first poll, a
\* wake by the timer, or a spurious poll).
PollBegin(g) ==
    /\ gate[g].st = "idle"
    /\ Enter(g)

\* poll, line 111, after a denied first check re-armed the Delay.
PollDelay(g) ==
    /\ gate[g].st = "delay"
    /\ PollTimer(g, hist[g])
    /\ UNCHANGED <<now, woken>>

\* A poll that checks the limiter again when its second poll of the Delay
\* finds it fired.
PollRepollRechecks(g) ==
    /\ gate[g].st = "repoll"
    /\ IF DelayReady(gate[g].delay)
       THEN PollCheck(g, TimerPolled(hist[g], TRUE), "repoll")
       ELSE /\ gate' = [gate EXCEPT ![g].delay = DelayPolled(@), ![g].st = "idle"]
            /\ hist' = [hist EXCEPT ![g] =
                          Returned(TimerPolled(@, FALSE), "Pending", now)]
            /\ UNCHANGED <<lim, log>>
    /\ UNCHANGED <<now, woken>>

\* poll, lines 117-118: after a denied re-check re-armed the Delay, the
\* Delay is polled, its answer is discarded and the poll returns Pending.
PollRepoll(g) ==
    /\ gate[g].st = "repoll"
    /\ gate' = [gate EXCEPT ![g].delay = DelayPolled(@), ![g].st = "idle"]
    /\ hist' = [hist EXCEPT ![g] =
                  Returned(TimerPolled(@, DelayReady(gate[g].delay)),
                           "Pending", now)]
    /\ UNCHANGED <<now, lim, woken, log>>

\* A gate that has not completed is dropped between polls (its task is
\* cancelled): its Delay goes with it.  What was observed of it is
\* forgotten, except what its last poll returned.
Drop(g) ==
    /\ gate[g].st = "idle"
    /\ gate' = [gate EXCEPT ![g] = Dropped(@)]
    /\ hist' = [hist EXCEPT ![g] = [NoHist EXCEPT !.ret = hist[g].ret]]
    /\ UNCHANGED <<now, lim, woken, log>>

\* A scheduler that polls a gate again after it returned Ready.
PollAfterReady(g) ==
    /\ gate[g].st = "done"
    /\ Enter(g)

Step(g) ==
    \/ New(g)
    \/ PollBegin(g)
    \/ PollDelay(g)
    \/ PollRepoll(g)
    \/ TimerFire(g)
    \/ Drop(g)

Next == Tick \/ \E g \in Gates : Step(g)

\* Gates driven as .await drives them: never polled after Ready.
Spec == Init /\ [][Next]_vars

NextRepoll == Next \/ \E g \in Gates : PollAfterReady(g)

\* Gates under a scheduler that may poll a completed gate again.
SpecRepoll == Init /\ [][NextRepoll]_vars

\* The timer fires every armed instant the clock reaches, a poll that has
\* begun runs to its return, and the scheduler polls a task the timer woke.
\* It owes a gate no poll otherwise.
PollWoken(g) == woken[g] /\ PollBegin(g)

Fairness ==
    /\ WF_vars(Tick)
    /\ \A g \in Gates :
        /\ WF_vars(TimerFire(g))
        /\ WF_vars(PollDelay(g))
        /\ WF_vars(PollRepoll(g))
        /\ WF_vars(PollWoken(g))

LiveSpec == Init /\ [][Next]_vars /\ Fairness

\* ================================================================ claims

\* C1: a poll that returns Ready made an admitted limiter check as its last
\* action; no poll returns Ready because the timer fired.  A gate is in
\* position "done" exactly when its last poll returned Ready.
C1_ReadyOnlyAfterAdmission ==
    \A g \in Gates :
        gate[g].st = "done" =>
            /\ hist[g].ret = "Ready"
            /\ hist[g].act = "admit"
            /\ hist[g].pchecks >= 1

\* A gate that completed on a check made after its timer fired.
C1_Witness ==
    \E g \in Gates :
        /\ gate[g].st = "done"
        /\ hist[g].tpolled
        /\ hist[g].checks >= 2
        /\ hist[g].admits = 1

\* C2: once a poll of a gate has returned Ready, no later poll of it makes a
\* limiter check.
C2_NoCheckAfterReady ==
    [][\A g \in Gates :
          hist[g].readyAt # NoInstant => hist'[g].checks = hist[g].checks]_vars

\* C3: under a fair timer and scheduler, every gate that has been polled
\* eventually returns Ready (unless it is dropped, or its timer is armed
\* for an instant the bounded clock never reaches).
C3_EventuallyReady ==
    \A g \in Gates :
        (hist[g].checks > 0) ~>
            \/ gate[g].st \in {"done", "dropped"}
            \/ gate[g].delay.when > MaxTime

\* C4: a gate whose first limiter check is admitted returns Ready from its
\* first poll, and its timer is neither polled nor re-armed.
C4_ImmediateAdmission ==
    \A g \in Gates :
        (hist[g].checks >= 1 /\ hist[g].found + Weight <= Full) =>
            /\ gate[g].st = "done"
            /\ hist[g].ret = "Ready"
            /\ hist[g].checks = 1
            /\ ~hist[g].tpolled
            /\ hist[g].resets = 0
            /\ gate[g].delay.when = 0
            /\ ~gate[g].delay.waker

\* A gate admitted at once while another gate waits on its timer.
C4_Witness ==
    \E g, k \in Gates :
        /\ gate[g].st = "done" /\ hist[g].checks = 1 /\ ~hist[g].tpolled
        /\ gate[k].st = "idle" /\ hist[k].ret = "Pending"

\* C5: two gates made at tick 0 (T0) on the fresh 1-per-unit limiter, no
\* other gate: the first one polled returns Ready from its first poll; if
\* that poll is at T0, the other gate is not Ready before T0 + 1 unit, its
\* timer is armed for T0 + 1 unit by its one denial (it is denied when
\* polled before T0 + 1 unit), and it returns Ready from the one check it
\* makes after that timer fired.
TwoGates(g, h) ==
    /\ g # h
    /\ \A k \in Gates \ {g, h} : gate[k].st = "none"
    /\ gate[g].st # "none" /\ gate[h].st # "none"
    /\ hist[g].found = 0

C5_TwoGates ==
    \A g, h \in Gates :
        TwoGates(g, h) =>
            /\ gate[g].st = "done" /\ hist[g].checks = 1
            /\ hist[g].readyAt = 0 =>
                LET T1 == Weight
                IN  /\ hist[h].readyAt # NoInstant => hist[h].readyAt >= T1
                    /\ (hist[h].checks >= 1 /\ gate[h].st # "done") =>
                          /\ hist[h].resets = 1
                          /\ hist[h].earliest = T1
                          /\ gate[h].delay.when = T1
                          /\ hist[h].ret \in {"none", "Pending"}
                    /\ (hist[h].resets >= 1 /\ gate[h].st = "done") =>
                          /\ hist[h].resets = 1
                          /\ hist[h].checks = 2
                          /\ hist[h].tpolled
                          /\ hist[h].act = "admit"

\* The first gate was Ready at T0 and the second at T0 + 1 unit or later,
\* after it returned Pending.
C5_Witness ==
    \E g, h \in Gates :
        /\ TwoGates(g, h)
        /\ hist[g].readyAt = 0
        /\ gate[h].st = "done"
        /\ hist[h].readyAt >= Weight
        /\ hist[h].checks = 2

\* C6: a gate whose first check is denied with earliest_possible E, on a
\* limiter no other gate uses (so that it admits at E and after), returns
\* Pending from every poll before E, makes exactly two limiter checks and
\* returns Ready from the poll that makes the second one.
SingleRetry(g) ==
    /\ hist[g].checks >= 1
    /\ hist[g].found + Weight > Full
    /\ \A k \in Gates \ {g} : hist[k].checks = 0

C6_SingleRetry ==
    \A g \in Gates :
        SingleRetry(g) =>
            /\ hist[g].resets = 1
            /\ hist[g].checks <= 2
            /\ gate[g].st = "done" <=> hist[g].checks = 2
            /\ gate[g].st = "done" =>
                  /\ hist[g].ret = "Ready"
                  /\ hist[g].act = "admit"
                  /\ hist[g].readyAt >= hist[g].earliest
            /\ gate[g].st = "idle" => hist[g].ret = "Pending"
            /\ gate[g].st # "done" =>
                  /\ hist[g].ret \in {"none", "Pending"}
                  /\ gate[g].delay.when = hist[g].earliest

\* A gate denied once that returned Pending, and later Ready from its
\* second check.
C6_Witness ==
    \E g \in Gates :
        /\ SingleRetry(g)
        /\ gate[g].st = "done"
        /\ hist[g].checks = 2
        /\ hist[g].ptpolls = 1 /\ hist[g].pchecks = 1

\* C7: every limiter check of a gate after a denial is made at or after the
\* earliest_possible instant of its latest denial, whatever polls the
\* scheduler makes.
C7_NoEarlyRecheck == \A g \in Gates : ~hist[g].early

\* A gate that re-checked after a denial (and was denied again), and was
\* then polled while its timer had not fired (a poll the timer did not cause).
C7_Witness ==
    \E g \in Gates :
        /\ hist[g].resets >= 2
        /\ gate[g].st = "idle" /\ hist[g].ret = "Pending"
        /\ hist[g].pchecks = 0
        /\ ~gate[g].delay.fired

\* C8: after a denied check the timer is armed for the earliest_possible
\* instant of the latest denial, never for an earlier one.
C8_ArmedAtLatestDenial ==
    \A g \in Gates :
        hist[g].earliest # NoInstant =>
            /\ gate[g].delay.armed
            /\ gate[g].delay.when = hist[g].earliest

\* A gate denied twice: the second denial's instant is later than the tick
\* of the re-check, which was at or after the first denial's instant.
C8_Witness ==
    \E g \in Gates :
        /\ hist[g].resets >= 2
        /\ hist[g].act = "deny"
        /\ gate[g].delay.when > now

\* C9: in every interval of one time unit, the number of gates that returned
\* Ready equals the number of checks the limiter admitted in it and is at
\* most Capacity, whatever the interleaving and whichever gates are admitted.
RECURSIVE Admitted(_)
Admitted(S) ==
    IF S = {} THEN 0
    ELSE LET t == CHOOSE x \in S : TRUE IN log[t] + Admitted(S \ {t})

Interval(t) == {u \in Time : t <= u /\ u < t + Full}

ReadyIn(S) == Cardinality({g \in Gates : hist[g].readyAt \in S})

C9_RatePerInterval ==
    \A t \in Time :
        /\ ReadyIn(Interval(t)) = Admitted(Interval(t))
        /\ ReadyIn(Interval(t)) <= Capacity

\* Every gate was admitted, in as many different intervals, after one of
\* them was denied at least twice.
C9_Witness ==
    /\ \A g \in Gates : gate[g].st = "done"
    /\ \E g \in Gates : hist[g].resets >= 2
    /\ Admitted(Time) = NumGates

\* C10: dropping a suspended gate makes no limiter check and leaves the
\* limiter as it is (as its denied checks did), and releases its timer,
\* which never fires or wakes anything afterwards.
C10_DropStep ==
    \A g \in Gates :
        /\ (gate[g].st # "dropped" /\ gate'[g].st = "dropped") =>
              /\ lim' = lim
              /\ log' = log
              /\ ~gate'[g].delay.armed
        /\ hist'[g].resets > hist[g].resets => lim' = lim
        /\ gate[g].st = "dropped" =>
              /\ gate'[g] = gate[g]
              /\ woken'[g] = woken[g]
              /\ hist'[g] = hist[g]

C10_CancellationSafety == [][C10_DropStep]_vars

\* A gate dropped while suspended, with the clock run to its end and the
\* other gate admitted since.
C10_Witness ==
    \E g, k \in Gates :
        /\ gate[g].st = "dropped" /\ hist[g].ret = "Pending"
        /\ ~woken[g]
        /\ now = MaxTime
        /\ gate[k].st = "done" /\ hist[k].tpolled

\* C11: whenever the last poll of a suspended gate returned Pending, that
\* poll did not see (and discard) the timer fired for the armed instant, and
\* the task's waker is registered with the unfired timer, or the timer has
\* woken the task since.
C11_NoLostWakeup ==
    \A g \in Gates :
        (gate[g].st = "idle" /\ hist[g].ret = "Pending") =>
            /\ hist[g].act # "timer_ready"
            /\ woken[g] \/ (gate[g].delay.waker /\ ~gate[g].delay.fired)

\* C12: a poll that found the timer fired and whose check was then denied
\* polls the timer once: no poll polls the timer twice.
C12_NoDoublePoll ==
    \A g \in Gates :
        (hist[g].ret = "Pending" /\ gate[g].st = "idle") => hist[g].ptpolls <= 1

\* C13: a gate makes at most one admitted limiter check, and exactly one by
\* the time its poll returns Ready; the cells the limiter has given out are
\* as many as the gates that completed.
C13_OneAdmission ==
    /\ \A g \in Gates :
          /\ hist[g].admits <= 1
          /\ gate[g].st = "done" <=> hist[g].admits = 1
          /\ gate[g].st = "done" => hist[g].act = "admit"
    /\ Admitted(Time) = Cardinality({g \in Gates : gate[g].st = "done"})

\* A gate that completed after two denied checks, having taken one cell.
C13_Witness ==
    \E g \in Gates :
        /\ gate[g].st = "done"
        /\ hist[g].resets >= 2
        /\ hist[g].checks = hist[g].resets + 1
        /\ hist[g].admits = 1

\* C14: two gates whose latest denial carries the same earliest_possible
\* instant E, and one of them makes its check at E.  If the other has made
\* none yet and the limiter has room for one cell, the check is admitted,
\* its poll returns Ready and no room is left at E.  If the other was
\* admitted at E, the check is denied, the timer is re-armed for an instant
\* later than E and the poll goes on to return Pending.  So exactly one of
\* the two is Ready at E, whichever is polled first.
Racing(g, h) ==
    /\ g # h
    /\ hist[g].earliest # NoInstant
    /\ hist[h].earliest = hist[g].earliest
    /\ now = hist[g].earliest
    /\ gate[g].st \in {"idle", "delay"}
    /\ hist'[g].checks = hist[g].checks + 1

C14_RaceStep ==
    \A g, h \in Gates :
        /\ (Racing(g, h) /\ gate[h].st # "done" /\ LimiterCheck(lim, now).ok) =>
              /\ gate'[g].st = "done"
              /\ hist'[g].ret = "Ready"
              /\ hist'[g].readyAt = now
              /\ ~LimiterCheck(lim', now).ok
              /\ gate'[h] = gate[h]
        /\ (Racing(g, h) /\ gate[h].st = "done" /\ hist[h].readyAt = now) =>
              /\ gate'[g].st = "repoll"
              /\ hist'[g].act = "deny"
              /\ hist'[g].earliest > hist[g].earliest
              /\ gate'[g].delay.when = hist'[g].earliest
              /\ ~gate'[g].delay.fired
              /\ lim' = lim
        /\ (gate[g].st = "repoll" /\ gate'[g].st # "repoll") =>
              /\ gate'[g].st = "idle"
              /\ hist'[g].ret = "Pending"
              /\ hist'[g].checks = hist[g].checks

C14_RacingGates == [][C14_RaceStep]_vars

\* Both gates were denied with the same instant E; at E one was admitted
\* and the other, polled after it at E, was denied, re-armed its timer for a
\* later instant and returned Pending.
C14_Witness ==
    \E g, h \in Gates :
        /\ g # h
        /\ gate[h].st = "done" /\ hist[h].resets = 1
        /\ hist[h].readyAt = hist[h].earliest
        /\ now = hist[h].readyAt
        /\ gate[g].st = "idle" /\ hist[g].ret = "Pending"
        /\ hist[g].resets = 2
        /\ hist[g].pchecks = 1 /\ hist[g].ptpolls = 2
        /\ hist[g].earliest = hist[h].earliest + Weight
        /\ gate[g].delay.when > now

\* C15: a poll makes at most two limiter checks.  It makes two only when it
\* is the gate's first poll (every check of the gate so far is its own), its
\* first check was denied and its poll of the re-armed timer found it fired.
\* A later poll makes at most one.
C15_ChecksPerPoll ==
    \A g \in Gates :
        /\ hist[g].pchecks <= 2
        /\ hist[g].pchecks = 2 =>
              /\ hist[g].checks = 2
              /\ hist[g].found + Weight > Full
              /\ hist[g].resets >= 1
              /\ hist[g].ptpolls >= 1
        /\ hist[g].checks > hist[g].pchecks => hist[g].pchecks <= 1

\* A first poll that made two checks (the second admitted) beside a gate
\* whose later poll made one.
C15_Witness ==
    \E g, k \in Gates :
        /\ hist[g].pchecks = 2 /\ gate[g].st = "done"
        /\ hist[k].checks >= 2 /\ hist[k].pchecks = 1

\* C16: first_time is true exactly from construction until the first poll
\* begins; the first poll clears it whatever its check answers, and it never
\* becomes true again.  The checks a gate makes without polling its timer
\* first are exactly those made with first_time set: its first check.
Live(gt) == gt.st \in {"idle", "delay", "repoll", "done"}

C16_FlagStep ==
    \A g \in Gates :
        /\ Live(gate'[g]) =>
              (gate'[g].first_time <=>
                  (gate'[g].st = "idle" /\ hist'[g].ret = "none"))
        /\ gate'[g].first_time => hist'[g].checks = 0
        /\ (Live(gate[g]) /\ ~gate[g].first_time) => ~gate'[g].first_time
        /\ hist'[g].checks > hist[g].checks =>
              /\ gate[g].first_time <=> hist'[g].ptpolls = 0
              /\ gate[g].first_time <=> hist[g].checks = 0
              /\ ~gate'[g].first_time

C16_FirstAttemptFlag == [][C16_FlagStep]_vars

\* A gate whose first check was denied and which has checked again since,
\* beside a gate not polled yet.
C16_Witness ==
    \E g, k \in Gates :
        /\ ~gate[g].first_time /\ hist[g].found + Weight > Full
        /\ hist[g].checks >= 2 /\ hist[g].tpolled
        /\ gate[k].first_time /\ gate[k].st = "idle"

\* C17: a poll of a gate whose first_time is false and whose timer has not
\* fired makes no limiter check, leaves the limiter and the armed instant as
\* they are and returns Pending.
C17_NoOpStep ==
    \A g \in Gates :
        (PollBegin(g) /\ ~gate[g].first_time /\ ~DelayReady(gate[g].delay)) =>
            /\ lim' = lim
            /\ log' = log
            /\ hist'[g].checks = hist[g].checks
            /\ hist'[g].pchecks = 0
            /\ hist'[g].resets = hist[g].resets
            /\ gate'[g].delay.when = gate[g].delay.when
            /\ ~gate'[g].delay.fired
            /\ gate'[g].st = "idle"
            /\ hist'[g].ret = "Pending"

C17_NoOpPoll == [][C17_NoOpStep]_vars

\* A gate denied once, polled again before its armed instant: the poll made
\* no check and returned Pending, and the limiter still holds what it held.
C17_Witness ==
    \E g \in Gates :
        /\ gate[g].st = "idle" /\ hist[g].ret = "Pending"
        /\ hist[g].resets = 1 /\ hist[g].checks = 1
        /\ hist[g].pchecks = 0 /\ hist[g].ptpolls = 1
        /\ hist[g].act = "timer_pending"
        /\ now < gate[g].delay.when
        /\ Admitted(Time) = 0

\* C18: a gate that exists has one timer entry, armed for one instant: the
\* instant of construction until a check is denied, then the instant of the
\* latest denial.  The entry has fired only if that instant has passed (an
\* instant armed before does not fire it), and a dropped gate has no entry.
C18_OneTimer ==
    \A g \in Gates :
        /\ Live(gate[g]) =>
              /\ gate[g].delay.armed
              /\ gate[g].delay.when =
                    IF hist[g].earliest = NoInstant THEN 0 ELSE hist[g].earliest
              /\ gate[g].delay.fired => now >= gate[g].delay.when
        /\ gate[g].st = "dropped" => ~gate[g].delay.armed

\* A gate denied twice whose entry fired for the second denial's instant.
C18_Witness ==
    \E g \in Gates :
        /\ hist[g].resets >= 2
        /\ gate[g].delay.fired
        /\ gate[g].delay.when = hist[g].earliest
        /\ gate[g].st = "idle"

\* C19: the step that constructs a gate makes no limiter check and leaves
\* the limiter and every other gate as they are; the new gate has first_time
\* set and an unfired timer armed for an instant that has already come.
C19_NewStep ==
    \A g \in Gates :
        (gate[g].st = "none" /\ gate'[g].st # "none") =>
            /\ lim' = lim
            /\ log' = log
            /\ hist' = hist
            /\ \A k \in Gates \ {g} : gate'[k] = gate[k]
            /\ gate'[g].st = "idle"
            /\ gate'[g].first_time
            /\ gate'[g].delay.armed
            /\ gate'[g].delay.when <= now
            /\ ~gate'[g].delay.fired
            /\ ~gate'[g].delay.waker

C19_Construction == [][C19_NewStep]_vars

\* A gate constructed and not polled yet, whose timer has fired, on a
\* limiter another gate has been admitted by.
C19_Witness ==
    \E g, k \in Gates :
        /\ gate[g].st = "idle" /\ gate[g].first_time
        /\ hist[g].checks = 0
        /\ gate[g].delay.fired
        /\ gate[k].st = "done"

====
